---------------------------- MODULE Spec2Model ----------------------------
(***************************************************************************)
(* WhatsApp <-> OpenAI relay: the notification parser, the two outbound    *)
(* clients and the three webhook handlers of app/webhook.py.               *)
(*                                                                         *)
(* Python values are modelled as follows.  A dict is a function whose      *)
(* DOMAIN is the set of keys it holds, so an absent key is a key outside   *)
(* the DOMAIN.  A list is a sequence.  None is the value None below, which *)
(* no str of the model equals.  A handler's outcome is a record whose kind *)
(* is "return" or "raise".                                                 *)
(***************************************************************************)
EXTENDS Integers, Sequences, FiniteSets

VARIABLES
    environ,                \* os.environ, the process environment
    WHATSAPP_HOOK_TOKEN,    \* webhook.py module constant, set at import
    WhatsAppClient_cls,     \* class attributes of WhatsAppClient, set at import
    rotated,                \* the environment variables changed since import
    pc,                     \* position of the handler in flight
    data,                   \* callback: the JSON body of the request
    response,               \* callback: what process_notification returned
    wtsapp_client,          \* callback: the WhatsAppClient instance
    openai_client,          \* callback: the OpenAIClient instance
    reply,                  \* callback: what complete returned
    calls,                  \* outbound requests and their answers, in order
    http_response,          \* the last answer of the WhatsApp Cloud API
    send_result,            \* what send_text_message / send_template_message did
    query_params,           \* subscribe: the query string of the request
    result                  \* what the handler in flight returned or raised

vars == <<environ, WHATSAPP_HOOK_TOKEN, WhatsAppClient_cls, rotated, pc, data,
          response, wtsapp_client, openai_client, reply, calls, http_response,
          send_result, query_params, result>>

---------------------------------------------------------------------------
(* Python values *)

None == "<None>"

EmptyDict == [k \in {} |-> None]

HasKey(d, k) == k \in DOMAIN d

\* dict.get(k, default)
DictGet(d, k, default) == IF k \in DOMAIN d THEN d[k] ELSE default

\* bool(d) of a dict
TruthyDict(d) == DOMAIN d # {}

\* bool(s) of a str or None
TruthyStr(s) == s # None /\ s # ""

\* str(x) inside an f-string or str(): None prints as the text "None"
StrOf(x) == IF x = None THEN "None" ELSE x

Return(v) == [kind |-> "return", value |-> v]

\* an exception: its class and the pieces of its message
Exc(type, message) == [type |-> type, message |-> message]

Raise(e) == [kind |-> "raise", exc |-> e]

Continue == [kind |-> "continue"]

---------------------------------------------------------------------------
(* Bounds *)

\* entries + changes + messages of one notification
MaxNodes == 6

\* messages of one "messages" list
MaxMessages == 2

\* entries + changes + messages of a notification posted to the callback
MaxCallbackNodes == 3

\* characters of a hub.challenge query parameter
MaxChallengeLen == 3

---------------------------------------------------------------------------
(* The notifications a webhook request may carry: every key of every level *)
(* may be absent.                                                          *)

MessageTypes == {"text", "image"}

Senders == {"5511999999999"}

Bodies == {"what is a pointer?"}

\* an optional key: o is <<>> (key absent) or <<v>> (key present, value v)
Opt(k, o) == IF o = <<>> THEN EmptyDict ELSE [x \in {k} |-> o[1]]

Optional(S) == {<<>>} \cup {<<v>> : v \in S}

\* the dict holding the keys of a and of b (their keys are disjoint)
Merge(a, b) ==
    [k \in DOMAIN a \cup DOMAIN b |-> IF k \in DOMAIN a THEN a[k] ELSE b[k]]

\* every message over the optional keys "type", "from" and "text"
MessagesOver(senders, bodies) ==
    { Merge(Opt("type", t), Merge(Opt("from", f), Opt("text", x))) :
        t \in Optional(MessageTypes),
        f \in Optional(senders),
        x \in Optional({EmptyDict} \cup {[body |-> b] : b \in bodies}) }

\* The parser's messages: every message of type "text", and of the others
\* (no type, another type) the one with no further key and the one with both
\* a sender and a body.
Messages ==
    { m \in MessagesOver(Senders, Bodies) :
        \/ DictGet(m, "type", None) = "text"
        \/ DOMAIN m \subseteq {"type"}
        \/ HasKey(m, "from") /\ HasKey(m, "text") /\ HasKey(m.text, "body") }

\* the changes that hold no message
BareChanges ==
    { EmptyDict,
      [value |-> EmptyDict],
      [value |-> [statuses |-> <<>>]],
      [value |-> [messages |-> <<>>]] }

\* the entries that hold no change
BareEntries == { EmptyDict, [changes |-> <<>>] }

\* a change and its messages; a change without messages counts as one node
ChangesOfCost(c, msgs) ==
    IF c = 1
    THEN BareChanges
    ELSE IF c - 1 <= MaxMessages
         THEN { [value |-> [messages |-> ms]] : ms \in [1..(c - 1) -> msgs] }
         ELSE {}

RECURSIVE ChangeSeqs(_, _)
ChangeSeqs(b, msgs) ==
    IF b = 0 THEN { <<>> }
    ELSE UNION { { <<c>> \o r : c \in ChangesOfCost(k, msgs), r \in ChangeSeqs(b - k, msgs) } :
                 k \in 1..b }

EntriesOfCost(c, msgs) ==
    IF c = 1
    THEN BareEntries
    ELSE { [changes |-> cs] : cs \in ChangeSeqs(c - 1, msgs) }

RECURSIVE EntrySeqs(_, _)
EntrySeqs(b, msgs) ==
    IF b = 0 THEN { <<>> }
    ELSE UNION { { <<e>> \o r : e \in EntriesOfCost(k, msgs), r \in EntrySeqs(b - k, msgs) } :
                 k \in 1..b }

\* the notifications of at most n nodes whose messages are drawn from msgs
Payloads(n, msgs) ==
    {EmptyDict} \cup UNION { { [entry |-> es] : es \in EntrySeqs(b, msgs) } : b \in 0..n }

\* The callback's messages: as Messages, with the empty str among the senders
\* and the bodies.
CallbackMessages ==
    { m \in MessagesOver(Senders \cup {""}, Bodies \cup {""}) :
        \/ DictGet(m, "type", None) = "text"
        \/ DOMAIN m \subseteq {"type"}
        \/ HasKey(m, "from") /\ HasKey(m, "text") /\ HasKey(m.text, "body") }

CallbackPayloads == Payloads(MaxCallbackNodes, CallbackMessages)

---------------------------------------------------------------------------
(* The environment, and what importing the modules reads from it *)

ApiKeys == {"sk-1", "sk-2"}

ApiTokens == {"EAAG-1", "EAAG-2"}

NumberIds == {"1001"}

HookTokens == {"", "s3cr3t"}

\* os.environ.get(name)
Getenv(name) == DictGet(environ, name, None)

\* webhook.py line 11
Import_WHATSAPP_HOOK_TOKEN == Getenv("WHATSAPP_HOOK_TOKEN")

\* cliente_whatsapp.py lines 29-33: class attributes, evaluated when the class
\* statement runs
Import_WhatsAppClient ==
    [API_URL |-> <<"https://graph.facebook.com/v15.0/">>,
     WHATSAPP_API_TOKEN |-> Getenv("WHATSAPP_API_TOKEN"),
     WHATSAPP_CLOUD_NUMBER_ID |-> Getenv("WHATSAPP_CLOUD_NUMBER_ID")]

Imported ==
    /\ WHATSAPP_HOOK_TOKEN = Import_WHATSAPP_HOOK_TOKEN
    /\ WhatsAppClient_cls = Import_WhatsAppClient
    /\ rotated = {}

---------------------------------------------------------------------------
(* WhatsAppClient.process_notification *)

NotSupported == "\"M\\u00e9todo n\\u00e3o suportado\""

\* a type test that only asks whether the message declares a type
IsTextMessage_AnyType(message) == HasKey(message, "type")

\* line 164
IsTextMessage(message) == DictGet(message, "type", None) = "text"

\* lines 165-175: message["text"] is a subscript, not a .get
TextMessageResult(message) ==
    IF ~HasKey(message, "text")
    THEN Raise(Exc("KeyError", <<"'text'">>))
    ELSE Return([statusCode |-> 200,
                 body |-> DictGet(message.text, "body", None),
                 from_no |-> DictGet(message, "from", None),
                 isBase64Encoded |-> FALSE])

\* lines 178-182
Sentinel403 ==
    [statusCode |-> 403, body |-> NotSupported, isBase64Encoded |-> FALSE]

\* lines 162-175: for message in value["messages"]
RECURSIVE ScanMessages(_, _)
ScanMessages(messages, i) ==
    IF i > Len(messages) THEN Continue
    ELSE IF IsTextMessage(messages[i]) THEN TextMessageResult(messages[i])
    ELSE ScanMessages(messages, i + 1)

\* lines 159-162: one change
ScanChange(change) ==
    \* change.get("value") of a change without the key is None, which is falsy
    IF HasKey(change, "value") /\ TruthyDict(change.value)
                               /\ HasKey(change.value, "messages")
    THEN ScanMessages(change.value.messages, 1)
    ELSE Continue

\* lines 158-175: for change in changes
RECURSIVE ScanChanges(_, _)
ScanChanges(changes, j) ==
    IF j > Len(changes) THEN Continue
    ELSE LET r == ScanChange(changes[j])
         IN  IF r.kind # "continue" THEN r ELSE ScanChanges(changes, j + 1)

\* lines 156-175: for entry in entries
RECURSIVE ScanEntries(_, _)
ScanEntries(entries, i) ==
    IF i > Len(entries) THEN Continue
    ELSE LET r == ScanChanges(DictGet(entries[i], "changes", <<>>), 1)
         IN  IF r.kind # "continue" THEN r ELSE ScanEntries(entries, i + 1)

process_notification(d) ==
    LET r == ScanEntries(DictGet(d, "entry", <<>>), 1)
    IN  IF r.kind = "continue" THEN Return(Sentinel403) ELSE r

---------------------------------------------------------------------------
(* State shared by every specification *)

NoClient == EmptyDict

NoResponse == EmptyDict

\* no request is being handled
Quiet ==
    /\ response = EmptyDict
    /\ wtsapp_client = NoClient
    /\ openai_client = NoClient
    /\ reply = None
    /\ calls = <<>>
    /\ http_response = NoResponse
    /\ send_result = Continue
    /\ query_params = EmptyDict
    /\ result = Continue

---------------------------------------------------------------------------
(* The parser alone.  The platform composes a notification one entry,      *)
(* change or message at a time, in order; process_notification is applied  *)
(* to every notification it can compose within the bounds.                 *)

RECURSIVE SumOver(_, _)
SumOver(f, n) == IF n = 0 THEN 0 ELSE f[n] + SumOver(f, n - 1)

ChangeNodes(change) ==
    1 + (IF HasKey(change, "value") /\ HasKey(change.value, "messages")
         THEN Len(change.value.messages) ELSE 0)

EntryNodes(entry) ==
    LET changes == DictGet(entry, "changes", <<>>)
    IN  1 + SumOver([j \in 1..Len(changes) |-> ChangeNodes(changes[j])], Len(changes))

Nodes(d) ==
    LET entries == DictGet(d, "entry", <<>>)
    IN  SumOver([i \in 1..Len(entries) |-> EntryNodes(entries[i])], Len(entries))

Last(seq) == seq[Len(seq)]

SetLast(seq, v) == [seq EXCEPT ![Len(seq)] = v]

ParseFrame ==
    UNCHANGED <<environ, WHATSAPP_HOOK_TOKEN, WhatsAppClient_cls, rotated,
                response, wtsapp_client, openai_client, reply, calls, http_response,
                send_result, query_params>>

InitParse ==
    /\ environ = EmptyDict
    /\ Imported
    /\ pc = "compose"
    /\ data \in {EmptyDict, [entry |-> <<>>]}
    /\ Quiet

ComposeEntry ==
    /\ pc = "compose"
    /\ \E e \in BareEntries :
          /\ HasKey(data, "entry")
          /\ Nodes(data) < MaxNodes
          /\ data' = [entry |-> Append(data.entry, e)]
          /\ UNCHANGED <<pc, result>>
          /\ ParseFrame

ComposeChange ==
    /\ pc = "compose"
    /\ \E c \in BareChanges :
          /\ HasKey(data, "entry") /\ data.entry # <<>>
          /\ HasKey(Last(data.entry), "changes")
          /\ Nodes(data) < MaxNodes
          /\ data' = [entry |-> SetLast(data.entry,
                          [changes |-> Append(Last(data.entry).changes, c)])]
          /\ UNCHANGED <<pc, result>>
          /\ ParseFrame

ComposeMessage ==
    /\ pc = "compose"
    /\ \E m \in Messages :
          /\ HasKey(data, "entry") /\ data.entry # <<>>
          /\ HasKey(Last(data.entry), "changes") /\ Last(data.entry).changes # <<>>
          /\ LET changes == Last(data.entry).changes
                 change == Last(changes)
             IN  /\ HasKey(change, "value") /\ HasKey(change.value, "messages")
                 /\ Len(change.value.messages) < MaxMessages
                 /\ Nodes(data) < MaxNodes
                 /\ data' = [entry |-> SetLast(data.entry,
                                [changes |-> SetLast(changes,
                                    [value |-> [messages |-> Append(change.value.messages, m)]])])]
          /\ UNCHANGED <<pc, result>>
          /\ ParseFrame

Parse ==
    /\ pc = "compose"
    /\ result' = process_notification(data)
    /\ pc' = "done"
    /\ UNCHANGED data
    /\ ParseFrame

NextParse ==
    \/ ComposeEntry
    \/ ComposeChange
    \/ ComposeMessage
    \/ Parse

SpecParse == InitParse /\ [][NextParse]_vars

---------------------------------------------------------------------------
(* What a notification holds, read off its shape and not off the scan      *)

RECURSIVE Flatten(_, _)
Flatten(seqs, n) == IF n = 0 THEN <<>> ELSE Flatten(seqs, n - 1) \o seqs[n]

NestedMessagesOfChange(change) ==
    IF HasKey(change, "value") /\ HasKey(change.value, "messages")
    THEN change.value.messages
    ELSE <<>>

NestedMessagesOfEntry(entry) ==
    LET changes == DictGet(entry, "changes", <<>>)
    IN  Flatten([j \in 1..Len(changes) |-> NestedMessagesOfChange(changes[j])],
                Len(changes))

\* the correctly nested messages, in entry, change, message order
NestedMessages(d) ==
    LET entries == DictGet(d, "entry", <<>>)
    IN  Flatten([i \in 1..Len(entries) |-> NestedMessagesOfEntry(entries[i])],
                Len(entries))

TextPositions(d) ==
    { k \in 1..Len(NestedMessages(d)) :
        HasKey(NestedMessages(d)[k], "type") /\ NestedMessages(d)[k].type = "text" }

FirstTextMessage(d) ==
    NestedMessages(d)[CHOOSE k \in TextPositions(d) : \A l \in TextPositions(d) : k <= l]

---------------------------------------------------------------------------
(* Claims about process_notification, under SpecParse *)

\* C1: process_notification never raises on a missing key: whatever keys the
\* notification lacks, the call returns a result dict with statusCode 200 or 403.
C1_NeverRaisesOnMissingKeys ==
    pc = "done" =>
        /\ result.kind = "return"
        /\ result.value.statusCode \in {200, 403}

\* C3: a notification that holds at least one correctly nested message of type
\* "text" gets statusCode 200 with the body and the sender of the first such
\* message in scan order.
C3_FirstTextMessageReturned ==
    (pc = "done" /\ TextPositions(data) # {}) =>
        LET first == FirstTextMessage(data)
        IN  /\ result.kind = "return"
            /\ result.value.statusCode = 200
            /\ result.value.from_no = DictGet(first, "from", None)
            /\ HasKey(first, "text")
            /\ result.value.body = DictGet(first.text, "body", None)

\* C4: a notification in which no entry/changes/value/messages path yields a
\* message of type "text" gets the 403 sentinel: statusCode 403, no from_no,
\* isBase64Encoded false.
C4_SentinelWhenNoTextMessage ==
    (pc = "done" /\ TextPositions(data) = {}) =>
        /\ result.kind = "return"
        /\ result.value.statusCode = 403
        /\ ~HasKey(result.value, "from_no")
        /\ result.value.isBase64Encoded = FALSE
        /\ result.value = Sentinel403

\* C4's case: only messages that are not of type "text", one of them carrying a
\* text body, and the sentinel was returned.
C4_Witness ==
    /\ pc = "done"
    /\ Len(NestedMessages(data)) >= 2
    /\ TextPositions(data) = {}
    /\ \E k \in 1..Len(NestedMessages(data)) :
            /\ DictGet(NestedMessages(data)[k], "type", None) = "image"
            /\ HasKey(NestedMessages(data)[k], "text")
    /\ result.kind = "return"
    /\ result.value.statusCode = 403

---------------------------------------------------------------------------
(* int(str), as the subscribe handler applies it to hub.challenge.  A str  *)
(* of the query string is a sequence of characters.                        *)

Digits == {"0", "1", "7"}

ChallengeChars == Digits \cup {"-", "+", "_", " ", "x"}

DigitValue(c) == CASE c = "0" -> 0 [] c = "1" -> 1 [] c = "7" -> 7

RECURSIVE LStrip(_)
LStrip(s) == IF s # <<>> /\ Head(s) = " " THEN LStrip(Tail(s)) ELSE s

RECURSIVE RStrip(_)
RStrip(s) ==
    IF s # <<>> /\ s[Len(s)] = " " THEN RStrip(SubSeq(s, 1, Len(s) - 1)) ELSE s

\* the literal without its sign
Unsigned(s) == IF s # <<>> /\ Head(s) \in {"+", "-"} THEN Tail(s) ELSE s

\* digits, with single underscores between digits only
WellFormedDigits(d) ==
    /\ d # <<>>
    /\ \A i \in 1..Len(d) : d[i] \in Digits \cup {"_"}
    /\ d[1] \in Digits
    /\ d[Len(d)] \in Digits
    /\ \A i \in 1..(Len(d) - 1) : ~(d[i] = "_" /\ d[i + 1] = "_")

\* the value of the first n characters of d, underscores skipped
RECURSIVE DecimalValue(_, _)
DecimalValue(d, n) ==
    IF n = 0 THEN 0
    ELSE IF d[n] = "_" THEN DecimalValue(d, n - 1)
    ELSE 10 * DecimalValue(d, n - 1) + DigitValue(d[n])

int(s) ==
    LET t == RStrip(LStrip(s))
        d == Unsigned(t)
    IN  IF WellFormedDigits(d)
        THEN Return((IF Head(t) = "-" THEN -1 ELSE 1) * DecimalValue(d, Len(d)))
        ELSE Raise(Exc("ValueError", <<"invalid literal for int() with base 10: ", s>>))

---------------------------------------------------------------------------
(* webhook.subscribe: GET /webhook/ *)

\* line 54 (accents dropped)
AuthFailure == "Falha na autenticacao. Token invalido."

\* a response body, tagged with its JSON type
IntBody(n) == [type |-> "int", v |-> n]

StrBody(t) == [type |-> "str", v |-> t]

VerifyTokens == HookTokens \cup {"wrong"}

Challenges == UNION { [1..n -> ChallengeChars] : n \in 0..MaxChallengeLen }

QueryParams ==
    { Merge(Opt("hub.verify_token", t), Opt("hub.challenge", c)) :
        t \in Optional(VerifyTokens), c \in Optional(Challenges) }

\* a handler that asks for the token only
subscribe_TokenOnly(q) ==
    IF DictGet(q, "hub.verify_token", None) = WHATSAPP_HOOK_TOKEN
    THEN IF HasKey(q, "hub.challenge")
         THEN LET n == int(q["hub.challenge"])
              IN  IF n.kind = "return" THEN Return(IntBody(n.value)) ELSE n
         ELSE Raise(Exc("TypeError", <<"int() argument must be a string">>))
    ELSE Return(StrBody(AuthFailure))

\* lines 45-54
subscribe(q) ==
    LET verify_token == DictGet(q, "hub.verify_token", None)
        \* bool(challenge): the key is there and its str is not empty
        challenge_truthy == HasKey(q, "hub.challenge") /\ q["hub.challenge"] # <<>>
    IN  IF verify_token = WHATSAPP_HOOK_TOKEN /\ challenge_truthy
        THEN LET n == int(q["hub.challenge"])
             IN  IF n.kind = "return" THEN Return(IntBody(n.value)) ELSE n
        ELSE Return(StrBody(AuthFailure))

HandlerFrame ==
    UNCHANGED <<environ, WHATSAPP_HOOK_TOKEN, WhatsAppClient_cls, rotated>>

InitSubscribe ==
    /\ environ \in {EmptyDict} \cup {[WHATSAPP_HOOK_TOKEN |-> t] : t \in HookTokens}
    /\ Imported
    /\ pc = "idle"
    /\ data = EmptyDict
    /\ Quiet

Subscribe ==
    /\ pc = "idle"
    /\ \E q \in QueryParams :
          /\ query_params' = q
          /\ result' = subscribe(q)
          /\ pc' = "sub_done"
          /\ UNCHANGED <<data, response, wtsapp_client, openai_client, reply, calls,
                         http_response, send_result>>
          /\ HandlerFrame

\* the response is sent and the request is over
Finish ==
    /\ pc \in {"sub_done", "cb_done", "tpl_done"}
    /\ pc' = "idle"
    /\ data' = EmptyDict
    /\ response' = EmptyDict
    /\ wtsapp_client' = NoClient
    /\ openai_client' = NoClient
    /\ reply' = None
    /\ calls' = <<>>
    /\ http_response' = NoResponse
    /\ send_result' = Continue
    /\ query_params' = EmptyDict
    /\ result' = Continue
    /\ HandlerFrame

NextSubscribe ==
    \/ Subscribe
    \/ Finish

SpecSubscribe == InitSubscribe /\ [][NextSubscribe]_vars

---------------------------------------------------------------------------
(* Claims about subscribe, under SpecSubscribe *)

\* the request's token equals the configured secret and its challenge is
\* present and not empty
Granted ==
    /\ DictGet(query_params, "hub.verify_token", None) = WHATSAPP_HOOK_TOKEN
    /\ HasKey(query_params, "hub.challenge")
    /\ query_params["hub.challenge"] # <<>>

\* the challenge is a decimal integer literal: optional blanks around an
\* optional sign and digits
IsIntegerLiteral(s) == int(s).kind = "return"

\* C6 as amended: a granted request whose challenge is an integer literal gets
\* that integer; a granted request whose challenge is not one raises ValueError
\* and returns nothing; every other request gets the fixed failure string.
C6_SubscribeAnswer ==
    pc = "sub_done" =>
        IF Granted
        THEN IF IsIntegerLiteral(query_params["hub.challenge"])
             THEN /\ result.kind = "return"
                  /\ result.value.type = "int"
                  /\ result.value.v = int(query_params["hub.challenge"]).value
             ELSE /\ result.kind = "raise"
                  /\ result.exc.type = "ValueError"
        ELSE /\ result.kind = "return"
             /\ result.value.type = "str"
             /\ result.value.v = AuthFailure

\* C6's case: the secret is configured, the token matches and the challenge
\* "17" came back as the integer 17.
C6_Witness ==
    /\ pc = "sub_done"
    /\ WHATSAPP_HOOK_TOKEN = "s3cr3t"
    /\ Granted
    /\ query_params["hub.challenge"] = <<"1", "7">>
    /\ result.kind = "return"
    /\ result.value.type = "int"
    /\ result.value.v = 17

\* C6 as stated: whenever the token equals the secret and the challenge is
\* present and not empty, the handler returns the challenge as an integer;
\* otherwise it returns the failure string.
C6_Original ==
    pc = "sub_done" =>
        /\ result.kind = "return"
        /\ Granted => result.value.type = "int"
        /\ ~Granted => (result.value.type = "str" /\ result.value.v = AuthFailure)

\* C10: a request without hub.verify_token never passes the handshake: it gets
\* the failure string, whatever the configuration.
C10_NoTokenNeverVerified ==
    (pc = "sub_done" /\ ~HasKey(query_params, "hub.verify_token")) =>
        /\ result.kind = "return"
        /\ result.value.type = "str"
        /\ result.value.v = AuthFailure

---------------------------------------------------------------------------
(* The two clients *)

\* a constructor that reads the credentials from the environment when called
WhatsAppClient_init_ReadsEnviron ==
    [headers |-> [Authorization |-> <<"Bearer ", StrOf(Getenv("WHATSAPP_API_TOKEN"))>>,
                  ContentType |-> "application/json"],
     API_URL |-> WhatsAppClient_cls.API_URL
                   \o <<StrOf(Getenv("WHATSAPP_CLOUD_NUMBER_ID"))>>]

\* cliente_whatsapp.py lines 35-49: self.WHATSAPP_API_TOKEN and
\* self.WHATSAPP_CLOUD_NUMBER_ID resolve to the class attributes
WhatsAppClient_init ==
    [headers |-> [Authorization |-> <<"Bearer ", StrOf(WhatsAppClient_cls.WHATSAPP_API_TOKEN)>>,
                  ContentType |-> "application/json"],
     API_URL |-> WhatsAppClient_cls.API_URL
                   \o <<StrOf(WhatsAppClient_cls.WHATSAPP_CLOUD_NUMBER_ID)>>]

MissingKeyError ==
    Exc("ValueError", <<"A variavel 'OPENAI_API_KEY' nao esta definida nas variaveis de ambiente.">>)

\* a constructor that only rejects an unset variable
OpenAIClient_init_UnsetOnly ==
    LET api_key == Getenv("OPENAI_API_KEY")
    IN  IF api_key = None
        THEN Raise(MissingKeyError)
        ELSE Return([client |-> [api_key |-> api_key]])

\* cliente_openai.py lines 22-43
OpenAIClient_init ==
    LET api_key == Getenv("OPENAI_API_KEY")
    IN  IF ~TruthyStr(api_key)
        THEN Raise(MissingKeyError)
        ELSE Return([client |-> [api_key |-> api_key]])

DeveloperPrompt ==
    "Voce e um chatbot e so deve responder perguntas relacionadas ao tema: duvidas de programacao. Cordialmente, diga que nao pode ajudar em outros temas."

\* cliente_openai.py lines 62-77: the request complete(message) sends
CompletionRequest(client, message) ==
    [dir |-> "request",
     api |-> "openai",
     api_key |-> client.client.api_key,
     model |-> "gpt-4o",
     messages |-> << [role |-> "developer", content |-> DeveloperPrompt],
                     [role |-> "user", content |-> message] >>]

\* cliente_openai.py lines 80-83: complete returns choices[0].message.content
CompletionAnswer(content) == [dir |-> "answer", api |-> "openai", content |-> content]

\* cliente_whatsapp.py lines 107-115
TextPayload(message, phone_number) ==
    [messaging_product |-> "whatsapp",
     to |-> phone_number,
     type |-> "text",
     text |-> [preview_url |-> FALSE, body |-> message]]

\* cliente_whatsapp.py lines 67-77
TemplatePayload(template_name, language_code, phone_number) ==
    [messaging_product |-> "whatsapp",
     to |-> phone_number,
     type |-> "template",
     template |-> [name |-> template_name, language |-> [code |-> language_code]]]

\* cliente_whatsapp.py lines 80-84 and 118-122: requests.post
PostRequest(client, payload) ==
    [dir |-> "request",
     api |-> "whatsapp",
     url |-> client.API_URL \o <<"/messages">>,
     headers |-> client.headers,
     json |-> payload]

PostAnswer(resp) == [dir |-> "answer", api |-> "whatsapp", status_code |-> resp.status_code]

\* what the WhatsApp Cloud API may answer
HttpResponses ==
    { [status_code |-> 200, text |-> "{\"messages\":[{\"id\":\"wamid\"}]}"],
      [status_code |-> 201, text |-> "{\"created\":true}"],
      [status_code |-> 401, text |-> "{\"error\":{\"code\":190}}"],
      [status_code |-> 500, text |-> "{\"error\":{\"code\":1}}"] }

\* a check that takes every 2xx status for a success
AssertStatus_Any2xx(resp, prefix) ==
    IF resp.status_code \in 200..299
    THEN Return(resp.status_code)
    ELSE Raise(Exc("AssertionError", <<prefix, resp.text>>))

\* cliente_whatsapp.py lines 88-90 and 129-131: the assert and the return
AssertStatus(resp, prefix) ==
    IF resp.status_code = 200
    THEN Return(resp.status_code)
    ELSE Raise(Exc("AssertionError", <<prefix, resp.text>>))

\* lines 129-131
send_text_message_result(resp) ==
    AssertStatus(resp, "Erro ao enviar mensagem de texto: ")

\* lines 88-90
send_template_message_result(resp) ==
    AssertStatus(resp, "Erro ao enviar mensagem de template: ")

---------------------------------------------------------------------------
(* webhook.callback: POST /webhook/ *)

\* what completions the model may give
Replies == {"Use a loop.", ""}

\* line 106
Success == << [status |-> "success"], 200 >>

\* a guard that looks at the status only
Actionable_StatusOnly(resp) == DictGet(resp, "statusCode", None) = 200

\* lines 89-91
Actionable(resp) ==
    /\ DictGet(resp, "statusCode", None) = 200
    /\ TruthyStr(DictGet(resp, "body", None))
    /\ TruthyStr(DictGet(resp, "from_no", None))

\* Lines 76-95, up to the first wait on the network: the WhatsAppClient is
\* built, the body parsed, and for an actionable message the OpenAIClient is
\* built and the completion requested.
CallbackReceive ==
    /\ pc = "idle"
    /\ \E d \in CallbackPayloads :
          /\ wtsapp_client' = WhatsAppClient_init
          /\ data' = d
          /\ LET parsed == process_notification(d)
             IN  IF parsed.kind = "raise"
                 THEN /\ result' = parsed
                      /\ pc' = "cb_done"
                      /\ UNCHANGED <<response, openai_client, calls>>
                 ELSE /\ response' = parsed.value
                      /\ IF Actionable(parsed.value)
                         THEN LET built == OpenAIClient_init
                              IN  IF built.kind = "raise"
                                  THEN /\ result' = built
                                       /\ pc' = "cb_done"
                                       /\ UNCHANGED <<openai_client, calls>>
                                  ELSE /\ openai_client' = built.value
                                       /\ calls' = Append(calls,
                                              CompletionRequest(built.value, parsed.value.body))
                                       /\ pc' = "cb_await_completion"
                                       /\ UNCHANGED result
                         ELSE /\ result' = Return(Success)
                              /\ pc' = "cb_done"
                              /\ UNCHANGED <<openai_client, calls>>
          /\ UNCHANGED <<reply, http_response, send_result, query_params>>
          /\ HandlerFrame

\* Lines 95-102: complete returns the first choice and send_text_message posts it.
CompletionReturns ==
    /\ pc = "cb_await_completion"
    /\ \E content \in Replies :
          /\ reply' = content
          /\ calls' = calls \o << CompletionAnswer(content),
                                  PostRequest(wtsapp_client,
                                              TextPayload(content, response.from_no)) >>
          /\ pc' = "cb_await_post"
          /\ UNCHANGED <<data, response, wtsapp_client, openai_client, http_response,
                         send_result, query_params, result>>
          /\ HandlerFrame

\* Line 95: the completion API call raises; nothing in callback catches it.
CompletionFails ==
    /\ pc = "cb_await_completion"
    /\ result' = Raise(Exc("APIError", <<"completion request failed">>))
    /\ pc' = "cb_done"
    /\ UNCHANGED <<data, response, wtsapp_client, openai_client, reply, calls,
                   http_response, send_result, query_params>>
    /\ HandlerFrame

\* a dispatcher that reports success whatever the send did
CallbackAfterSend_Swallows(sent) == Return(Success)

\* what callback does with the outcome of send_text_message (lines 99-106)
CallbackAfterSend(sent) == IF sent.kind = "raise" THEN sent ELSE Return(Success)

\* Lines 125-131 and 103-106: the API answers the post.
PostResponds ==
    /\ pc = "cb_await_post"
    /\ \E resp \in HttpResponses :
          /\ http_response' = resp
          /\ calls' = Append(calls, PostAnswer(resp))
          /\ send_result' = send_text_message_result(resp)
          /\ result' = CallbackAfterSend(send_text_message_result(resp))
          /\ pc' = "cb_done"
          /\ UNCHANGED <<data, response, wtsapp_client, openai_client, reply, query_params>>
          /\ HandlerFrame

\* Lines 118-122: requests.post itself raises (no answer came).
PostFails ==
    /\ pc = "cb_await_post"
    /\ send_result' = Raise(Exc("ConnectionError", <<"no answer">>))
    /\ result' = Raise(Exc("ConnectionError", <<"no answer">>))
    /\ pc' = "cb_done"
    /\ UNCHANGED <<data, response, wtsapp_client, openai_client, reply, calls,
                   http_response, query_params>>
    /\ HandlerFrame

---------------------------------------------------------------------------
(* cliente_whatsapp.py run as a script: lines 185-192 *)

\* lines 187-189, up to the wait on the network
TemplateSend ==
    /\ pc = "idle"
    /\ \E phone_number \in Senders :
          /\ wtsapp_client' = WhatsAppClient_init
          /\ calls' = Append(calls,
                  PostRequest(WhatsAppClient_init,
                              TemplatePayload("hello_world", "en_US", phone_number)))
          /\ pc' = "tpl_await_post"
          /\ UNCHANGED <<data, response, openai_client, reply, http_response, send_result,
                         query_params, result>>
          /\ HandlerFrame

\* lines 86-90 and 189-190
TemplatePostResponds ==
    /\ pc = "tpl_await_post"
    /\ \E resp \in HttpResponses :
          /\ http_response' = resp
          /\ calls' = Append(calls, PostAnswer(resp))
          /\ send_result' = send_template_message_result(resp)
          /\ result' = send_template_message_result(resp)
          /\ pc' = "tpl_done"
          /\ UNCHANGED <<data, response, wtsapp_client, openai_client, reply, query_params>>
          /\ HandlerFrame

---------------------------------------------------------------------------
(* The process: imported once, then one request at a time.  The code never *)
(* writes os.environ; an operator changes it from outside.  No handler     *)
(* reads the environment after its first step, so a change during a        *)
(* request acts as one made right after it, and changes are taken between  *)
(* requests.                                                               *)

Environments ==
    { Merge(Opt("OPENAI_API_KEY", k),
            Merge(Opt("WHATSAPP_API_TOKEN", t), Opt("WHATSAPP_CLOUD_NUMBER_ID", n))) :
        k \in Optional(ApiKeys \cup {""}),
        t \in Optional(ApiTokens),
        n \in Optional(NumberIds) }

EnvValues(name) ==
    CASE name = "OPENAI_API_KEY" -> ApiKeys \cup {""}
      [] name = "WHATSAPP_API_TOKEN" -> ApiTokens
      [] name = "WHATSAPP_CLOUD_NUMBER_ID" -> NumberIds

EnvNames == {"OPENAI_API_KEY", "WHATSAPP_API_TOKEN", "WHATSAPP_CLOUD_NUMBER_ID"}

\* os.environ with name set to o[1], or unset when o is <<>>
Setenv(name, o) ==
    Merge(Opt(name, o), [k \in DOMAIN environ \ {name} |-> environ[k]])

Init ==
    /\ environ \in Environments
    /\ Imported
    /\ pc = "idle"
    /\ data = EmptyDict
    /\ Quiet

RotateEnv(name, o) ==
    /\ pc = "idle"
    /\ Setenv(name, o) # environ
    /\ environ' = Setenv(name, o)
    /\ rotated' = rotated \cup {name}
    /\ UNCHANGED <<WHATSAPP_HOOK_TOKEN, WhatsAppClient_cls, pc, data, response,
                   wtsapp_client, openai_client, reply, calls, http_response,
                   send_result, query_params, result>>

Next ==
    \/ \E name \in EnvNames : \E o \in Optional(EnvValues(name)) : RotateEnv(name, o)
    \/ CallbackReceive
    \/ CompletionReturns
    \/ CompletionFails
    \/ PostResponds
    \/ PostFails
    \/ TemplateSend
    \/ TemplatePostResponds
    \/ Finish

Spec == Init /\ [][Next]_vars

---------------------------------------------------------------------------
(* Claims about callback and the clients, under Spec *)

InCallback == pc \in {"cb_await_completion", "cb_await_post", "cb_done"}

\* the positions in calls of the requests sent to api
RequestsTo(api) ==
    { i \in 1..Len(calls) : calls[i].dir = "request" /\ calls[i].api = api }

AnswersFrom(api) ==
    { i \in 1..Len(calls) : calls[i].dir = "answer" /\ calls[i].api = api }

\* the parse result is a 200 whose body and sender are both non-empty
Answerable ==
    /\ HasKey(response, "statusCode") /\ response.statusCode = 200
    /\ HasKey(response, "body") /\ response.body \notin {None, ""}
    /\ HasKey(response, "from_no") /\ response.from_no \notin {None, ""}

CredentialPresent == Getenv("OPENAI_API_KEY") \notin {None, ""}

\* one of the handler's steps raised: the parse (the first message of type
\* "text" has no "text" key), the construction of the OpenAIClient, the
\* completion, or the send
StepRaised ==
    \/ TextPositions(data) # {} /\ ~HasKey(FirstTextMessage(data), "text")
    \/ Answerable /\ ~CredentialPresent
    \/ RequestsTo("openai") # {} /\ AnswersFrom("openai") = {}
    \/ RequestsTo("whatsapp") # {} /\ AnswersFrom("whatsapp") = {}
    \/ DOMAIN http_response # {} /\ http_response.status_code # 200

\* C2 as amended: callback returns ({status: success}, 200) exactly when none
\* of its steps (parse, client construction, completion, send) raises; when one
\* raises, the exception leaves the handler and no success is returned.
C2_SuccessUnlessAStepRaises ==
    pc = "cb_done" =>
        IF StepRaised
        THEN result.kind = "raise"
        ELSE result.kind = "return" /\ result.value = Success

\* C2's case: the send was answered 401, a step failed, nothing was returned.
C2_Witness ==
    /\ pc = "cb_done"
    /\ DOMAIN http_response # {}
    /\ http_response.status_code = 401
    /\ result.kind = "raise"
    /\ result.exc.type = "AssertionError"

\* C2 as stated: callback always ends by returning ({status: success}, 200),
\* whatever its internal steps did.
C2_Original ==
    pc = "cb_done" => (result.kind = "return" /\ result.value = Success)

\* C5 as amended: when the parse result is answerable and the OpenAIClient can
\* be built, exactly one completion is requested, with the parsed body; a text
\* message is posted only after the completion has returned, exactly once, with
\* the completion's reply and the parsed sender, and never when the completion
\* raises.  In every other case no completion and no send is requested.
C5_CompleteThenSend ==
    InCallback =>
        IF Answerable /\ CredentialPresent
        THEN /\ RequestsTo("openai") = {1}
             /\ calls[1].messages[2].content = response.body
             /\ Cardinality(RequestsTo("whatsapp")) <= 1
             /\ AnswersFrom("openai") # {} <=> RequestsTo("whatsapp") # {}
             /\ \A i \in RequestsTo("whatsapp") :
                    /\ i = 3
                    /\ calls[2] = CompletionAnswer(reply)
                    /\ calls[i].json.type = "text"
                    /\ calls[i].json.text.body = calls[2].content
                    /\ calls[i].json.to = response.from_no
             /\ (pc = "cb_done" /\ result.kind = "return") =>
                    Cardinality(RequestsTo("whatsapp")) = 1
        ELSE calls = <<>>

\* C5's case: an answerable message was completed and the reply posted to its
\* sender, and the handler returned.
C5_Witness ==
    /\ pc = "cb_done"
    /\ Answerable
    /\ result.kind = "return"
    /\ RequestsTo("openai") = {1}
    /\ RequestsTo("whatsapp") = {3}
    /\ calls[3].json.text.body = "Use a loop."
    /\ calls[3].json.to = "5511999999999"

\* C5 as stated: whenever the parse result is answerable, the finished handler
\* has requested exactly one completion and then posted exactly one message.
C5_Original ==
    (pc = "cb_done" /\ Answerable) =>
        /\ Cardinality(RequestsTo("openai")) = 1
        /\ Cardinality(RequestsTo("whatsapp")) = 1

\* C7: send_text_message and send_template_message post exactly once, return
\* 200 if and only if the answer's status is 200, and for every other status
\* raise an error whose message carries the answer's body text.
C7_SendReturns200OrRaises ==
    ((pc \in {"cb_done", "tpl_done"}) /\ DOMAIN http_response # {}) =>
        /\ Cardinality(RequestsTo("whatsapp")) = 1
        /\ send_result.kind \in {"return", "raise"}
        /\ send_result.kind = "return" <=> http_response.status_code = 200
        /\ send_result.kind = "return" => send_result.value = 200
        /\ send_result.kind = "raise" =>
               \E j \in 1..Len(send_result.exc.message) :
                   send_result.exc.message[j] = http_response.text

\* C7's case: send_text_message was answered 201 and raised.
C7_Witness ==
    /\ pc = "cb_done"
    /\ DOMAIN http_response # {}
    /\ http_response.status_code = 201
    /\ send_result.kind = "raise"
    /\ send_result.exc.message[2] = http_response.text

\* C8: with OPENAI_API_KEY unset or empty, building the OpenAIClient raises the
\* configuration error before any request is sent: the callback that reaches
\* the construction ends there, with no completion and no send requested.
C8_NoCredentialNoCalls ==
    (InCallback /\ Answerable /\ ~CredentialPresent) =>
        /\ pc = "cb_done"
        /\ result.kind = "raise"
        /\ result.exc.type = "ValueError"
        /\ openai_client = NoClient
        /\ calls = <<>>

\* C8's case: the variable is set to the empty str and the construction raised.
C8_Witness ==
    /\ pc = "cb_done"
    /\ Answerable
    /\ Getenv("OPENAI_API_KEY") = ""
    /\ result.kind = "raise"
    /\ calls = <<>>

\* C9 as amended: an OpenAIClient holds the OPENAI_API_KEY the environment has
\* when it is built; a WhatsAppClient holds the token and the number id the
\* class read from the environment at import, also when the environment has
\* changed since.
C9_CredentialsReadWhen ==
    /\ \A name \in {"WHATSAPP_API_TOKEN", "WHATSAPP_CLOUD_NUMBER_ID"} :
           name \notin rotated => WhatsAppClient_cls[name] = Getenv(name)
    /\ wtsapp_client # NoClient =>
           /\ wtsapp_client.headers.Authorization =
                  <<"Bearer ", StrOf(WhatsAppClient_cls.WHATSAPP_API_TOKEN)>>
           /\ wtsapp_client.API_URL =
                  <<"https://graph.facebook.com/v15.0/",
                    StrOf(WhatsAppClient_cls.WHATSAPP_CLOUD_NUMBER_ID)>>
    /\ openai_client # NoClient =>
           openai_client.client.api_key = Getenv("OPENAI_API_KEY")

\* C9's case: both the key and the token were rotated, then a callback built
\* both clients: the new key and the old token are in use.
C9_Witness ==
    /\ {"OPENAI_API_KEY", "WHATSAPP_API_TOKEN"} \subseteq rotated
    /\ pc = "cb_await_completion"
    /\ WhatsAppClient_cls.WHATSAPP_API_TOKEN = "EAAG-1"
    /\ Getenv("WHATSAPP_API_TOKEN") = "EAAG-2"
    /\ wtsapp_client.headers.Authorization = <<"Bearer ", "EAAG-1">>
    /\ openai_client.client.api_key = Getenv("OPENAI_API_KEY")

\* C9 as stated: a client built after a rotation uses the credential the
\* environment holds now, for both clients.
C9_Original ==
    /\ wtsapp_client # NoClient =>
           /\ wtsapp_client.headers.Authorization =
                  <<"Bearer ", StrOf(Getenv("WHATSAPP_API_TOKEN"))>>
           /\ wtsapp_client.API_URL =
                  <<"https://graph.facebook.com/v15.0/",
                    StrOf(Getenv("WHATSAPP_CLOUD_NUMBER_ID"))>>
    /\ openai_client # NoClient =>
           openai_client.client.api_key = Getenv("OPENAI_API_KEY")

=============================================================================
